---- MODULE Spec2Model ----
(***************************************************************************)
(* A model of the intintmap package: an open-addressing hash map from     *)
(* integers to integers with linear probing over one interleaved          *)
(* key/value array, an out-of-band entry for the key 0 (FREE_KEY), growth *)
(* by rehash and tombstone-free deletion by backward shift (shiftKeys).   *)
(*                                                                         *)
(* The package exists twice: src/intintmap.go (int64, "signed") and        *)
(* src/unnamed/part_000 (uint64, "unsigned").  The variable `variant`      *)
(* says which of the two a behaviour runs; the operators that differ       *)
(* between the two files exist once per file.                              *)
(***************************************************************************)
EXTENDS Integers, Sequences, FiniteSets, TLC

VARIABLES
    variant,    \* "signed" (src/intintmap.go) or "unsigned" (src/unnamed/part_000)
    pc,         \* "init": before New; "ready": between calls; "panic": New panicked;
                \* "hung": a call is in a loop it never leaves
    m,          \* the Map struct
    ref,        \* ghost: the reference map, a function from the present keys to values
    call,       \* ghost: the last call of New, Put or Del: [op, key, grew, moved]
    it          \* the iteration started by Keys() or Items(): the producer goroutine,
                \* the channel and the consumer

vars == <<variant, pc, m, ref, call, it>>

----------------------------------------------------------------------------
(* Bounds of the model *)

\* how many keys of KeyPool the calls draw their key from
NumKeys == 4
\* how many keys of KeyPool the calls draw their key from when the caller
\* goes on to iterate (SpecIter)
NumIterKeys == 3
\* New's size argument is drawn from -1..MaxExpected
MaxExpected == 3
\* how far size may fall below the number of entries before the model stops
\* drawing further calls that lower it
MaxDeficit == 1

\* Keys with colliding home slots at capacities 2, 4 and 8:
\* capacity 2: 1,6 -> 0; 7,8 -> 1.  capacity 4: 1,6 -> 2; 7,8 -> 3; 2 -> 0.
\* capacity 8: 1 -> 6; 6 -> 2; 7,8 -> 3; 2 -> 4.
KeyPool == <<0, 1, 6, 7, 8, 2, 3, 4>>
KeySet == {KeyPool[i] : i \in 1..NumKeys}
\* the keys of the scenario New(4, 0.5); Put(1, 10) .. Put(5, 50); Del(2), and
\* the value the scenario puts with each
ScenarioKeys == 1..5
ScenarioVal(k) == 10 * k
IterKeySet == {KeyPool[i] : i \in 1..NumIterKeys}
\* two values tell an overwrite from the value before it; 0 is also NO_VALUE
Values == {0, 1}
SizeArgs == (-1)..MaxExpected
\* fill factors as fractions <<numerator, denominator>>; 1/2 and 3/4 are exact
\* as float64, so floor and ceil of their products are those of the fractions
FillArgs == {<<-1, 2>>, <<0, 1>>, <<1, 2>>, <<3, 4>>, <<1, 1>>, <<3, 2>>}

----------------------------------------------------------------------------
(* Program constants *)

INT_PHI_HI == 40503      \* 0x9E37, the high 16 bits of INT_PHI = 0x9E3779B9
INT_PHI_LO == 31161      \* 0x79B9, the low 16 bits of INT_PHI
FREE_KEY == 0
NO_VALUE == 0
ChanCap == 10

----------------------------------------------------------------------------
(* Bit operations on non-negative integers *)

RECURSIVE BitAnd(_, _)
BitAnd(a, b) ==
    IF a = 0 \/ b = 0 THEN 0
    ELSE (a % 2) * (b % 2) + 2 * BitAnd(a \div 2, b \div 2)

RECURSIVE BitOr(_, _)
BitOr(a, b) ==
    IF a = 0 THEN b
    ELSE IF b = 0 THEN a
    ELSE (IF a % 2 = 1 \/ b % 2 = 1 THEN 1 ELSE 0) + 2 * BitOr(a \div 2, b \div 2)

RECURSIVE BitXor(_, _)
BitXor(a, b) ==
    IF a = 0 THEN b
    ELSE IF b = 0 THEN a
    ELSE (((a % 2) + (b % 2)) % 2) + 2 * BitXor(a \div 2, b \div 2)

RECURSIVE Pow2(_)
Pow2(n) == IF n = 0 THEN 1 ELSE 2 * Pow2(n - 1)

ShiftRight(x, n) == x \div Pow2(n)

----------------------------------------------------------------------------
(* phiMix: h := x * INT_PHI (wrapping); return h ^ (h >> 16).              *)
(* Only the low 16 bits of the result are kept: every use is `& m.mask`    *)
(* with mask < 2^16.  They are bits 0..15 of h xor bits 16..31 of h, and   *)
(* bits 0..31 of h = x * INT_PHI mod 2^32 are the same for int64 and       *)
(* uint64.  The product is formed in 16-bit limbs, for 0 <= x < 2^15.      *)
phiMixHLow(x) == (x * INT_PHI_LO) % 65536
phiMixHHigh(x) == (((x * INT_PHI_LO) \div 65536) + x * INT_PHI_HI) % 65536
phiMix(x) == BitXor(phiMixHLow(x), phiMixHHigh(x))

----------------------------------------------------------------------------
(* Construction *)

\* nextPowerOf2, for x < 2^30 (no uint32 wrap in the final + 1)
nextPowerOf2(x) ==
    IF x = 0 THEN 1
    ELSE LET x0 == x - 1
             x1 == BitOr(x0, ShiftRight(x0, 1))
             x2 == BitOr(x1, ShiftRight(x1, 2))
             x3 == BitOr(x2, ShiftRight(x2, 4))
             x4 == BitOr(x3, ShiftRight(x3, 8))
             x5 == BitOr(x4, ShiftRight(x4, 16))
         IN  x5 + 1      \* x >> 32 of a uint32 is 0

\* math.Ceil(float64(exp) / fill) for exp > 0 and fill = num/den > 0
CeilDiv(exp, fill) == (exp * fill[2] + fill[1] - 1) \div fill[1]

\* math.Floor(float64(capacity) * fill)
FloorMul(capacity, fill) == (capacity * fill[1]) \div fill[2]

arraySize(exp, fill) ==
    LET s == nextPowerOf2(CeilDiv(exp, fill))
    IN  IF s < 2 THEN 2 ELSE s

Zeros(n) == [i \in 0..(n - 1) |-> 0]

\* mutant: New that accepts a fill factor of 1 (> for >=)
NewPanicsAboveOne(size, fillFactor) ==
    \/ fillFactor[1] <= 0
    \/ fillFactor[1] > fillFactor[2]
    \/ size <= 0

\* New's two panics
NewPanics(size, fillFactor) ==
    \/ fillFactor[1] <= 0                \* fillFactor <= 0
    \/ fillFactor[1] >= fillFactor[2]    \* fillFactor >= 1
    \/ size <= 0

\* the Map New returns when it does not panic
New(size, fillFactor) ==
    LET capacity == arraySize(size, fillFactor)
    IN  [ data       |-> Zeros(2 * capacity),
          fillFactor |-> fillFactor,
          threshold  |-> FloorMul(capacity, fillFactor),
          size       |-> 0,
          mask       |-> capacity - 1,
          mask2      |-> 2 * capacity - 1,
          hasFreeKey |-> FALSE,
          freeVal    |-> 0 ]

len(data) == Cardinality(DOMAIN data)
Capacity(mp) == len(mp.data) \div 2

----------------------------------------------------------------------------
(* The calls.  Each operator returns [m, out, hang]: the Map after the     *)
(* call, the values the call returns (a tuple: <<>> for a func without     *)
(* results) and whether the call never returns.  A probe loop that has     *)
(* looked at every slot without leaving starts over in the same state, so  *)
(* it never leaves: that is `hang`.                                        *)

Ret(mp, out) == [m |-> mp, out |-> out, hang |-> FALSE]
Hang(mp) == [m |-> mp, out |-> <<>>, hang |-> TRUE]

\* phiMix over the keys of the model, computed once
phiMixOf == [k \in KeySet \cup ScenarioKeys |-> phiMix(k)]

\* ptr := (phiMix(key) & m.mask) << 1
HomePtr(mp, key) == BitAnd(phiMixOf[key], mp.mask) * 2

\* ptr = (ptr + 2) & m.mask2
NextPtr(mp, ptr) == BitAnd(ptr + 2, mp.mask2)

\* the for loop of Get; n counts the slots looked at
RECURSIVE GetLoop(_, _, _, _)
GetLoop(mp, key, ptr, n) ==
    LET p == NextPtr(mp, ptr)
        k == mp.data[p]
    IN  IF k = FREE_KEY THEN [found |-> FALSE, val |-> 0, hang |-> FALSE]
        ELSE IF k = key THEN [found |-> TRUE, val |-> mp.data[p + 1], hang |-> FALSE]
        ELSE IF n + 1 >= Capacity(mp) THEN [found |-> FALSE, val |-> 0, hang |-> TRUE]
        ELSE GetLoop(mp, key, p, n + 1)

\* Get up to the shape of its result: [found, val, hang]
GetProbe(mp, key) ==
    IF key = FREE_KEY
    THEN IF mp.hasFreeKey
         THEN [found |-> TRUE, val |-> mp.freeVal, hang |-> FALSE]
         ELSE [found |-> FALSE, val |-> 0, hang |-> FALSE]
    ELSE LET ptr == HomePtr(mp, key)
             k == mp.data[ptr]
         IN  IF key = FREE_KEY      \* the code tests key, not k: never true here
             THEN [found |-> FALSE, val |-> 0, hang |-> FALSE]
             ELSE IF k = key
             THEN [found |-> TRUE, val |-> mp.data[ptr + 1], hang |-> FALSE]
             ELSE GetLoop(mp, key, ptr, 0)

\* src/intintmap.go: func (m *Map) Get(key int64) int64
GetSigned(mp, key) ==
    LET r == GetProbe(mp, key)
    IN  IF r.hang THEN Hang(mp)
        ELSE IF r.found THEN Ret(mp, <<r.val>>)
        ELSE Ret(mp, <<NO_VALUE>>)

\* src/unnamed/part_000: func (m *Map) Get(key uint64) (uint64, bool)
GetUnsigned(mp, key) ==
    IF key # FREE_KEY /\ (HomePtr(mp, key) < 0 \/ HomePtr(mp, key) >= len(mp.data))
    THEN Ret(mp, <<0, FALSE>>)
    ELSE LET r == GetProbe(mp, key)
         IN  IF r.hang THEN Hang(mp)
             ELSE IF r.found THEN Ret(mp, <<r.val, TRUE>>)
             ELSE Ret(mp, <<0, FALSE>>)

Get(v, mp, key) == IF v = "signed" THEN GetSigned(mp, key) ELSE GetUnsigned(mp, key)

----------------------------------------------------------------------------
(* shiftKeys *)

\* the break condition of the inner loop
ShiftBreaks(last, slot, pos) ==
    IF last <= pos
    THEN last >= slot \/ slot > pos
    ELSE last >= slot /\ slot > pos

RECURSIVE ShiftInner(_, _, _, _)
ShiftInner(mp, data, last, pos) ==
    LET k == data[pos]
    IN  IF k = FREE_KEY
        THEN [data EXCEPT ![last] = FREE_KEY]
        ELSE LET slot == HomePtr(mp, k)      \* slot = (phiMix(k) & m.mask) << 1
             IN  IF ShiftBreaks(last, slot, pos)
                 THEN \* data[last] = k; data[last+1] = data[pos+1]; next round
                      ShiftInner(mp,
                                 [data EXCEPT ![last] = k, ![last + 1] = data[pos + 1]],
                                 pos, NextPtr(mp, pos))
                 ELSE ShiftInner(mp, data, last, NextPtr(mp, pos))

NoFreeSlot(data) == \A i \in DOMAIN data : i % 2 = 0 => data[i] # FREE_KEY

\* mutant: Del that only empties the slot, moving nothing
shiftKeysLeavesGap(mp, pos) ==
    Ret([mp EXCEPT !.data = [mp.data EXCEPT ![pos] = FREE_KEY]], <<>>)

\* shiftKeys(pos): returns only through `k == FREE_KEY`; with no free slot in
\* the array the loops run for ever (the scan comes back to `last`, where the
\* break condition holds and the entry is copied onto itself, again and again)
shiftKeys(mp, pos) ==
    IF NoFreeSlot(mp.data)
    THEN Hang(mp)
    ELSE Ret([mp EXCEPT !.data = ShiftInner(mp, mp.data, pos, NextPtr(mp, pos))], <<>>)

----------------------------------------------------------------------------
(* Put and rehash *)

RECURSIVE Put(_, _, _)
RECURSIVE rehash(_)
RECURSIVE RehashLoop(_, _, _)
RECURSIVE PutLoop(_, _, _, _, _)

\* mutant: Put that grows only once size is above threshold (> for >=)
PutAtFreeGrowsLate(mp, ptr, key, val) ==
    LET w == [mp EXCEPT !.data = [mp.data EXCEPT ![ptr] = key, ![ptr + 1] = val]]
    IN  IF w.size > w.threshold
        THEN LET r == rehash(w)
             IN  IF r.hang THEN r ELSE Ret(r.m, <<NO_VALUE>>)
        ELSE Ret([w EXCEPT !.size = w.size + 1], <<NO_VALUE>>)

\* mutant: Put that grows when the size after adding reaches threshold
PutAtFreeGrowsEarly(mp, ptr, key, val) ==
    LET w == [mp EXCEPT !.data = [mp.data EXCEPT ![ptr] = key, ![ptr + 1] = val]]
    IN  IF w.size + 1 >= w.threshold
        THEN LET r == rehash(w)
             IN  IF r.hang THEN r ELSE Ret(r.m, <<NO_VALUE>>)
        ELSE Ret([w EXCEPT !.size = w.size + 1], <<NO_VALUE>>)

\* the body both `k == FREE_KEY` branches of Put share: write, then grow or count
PutAtFree(mp, ptr, key, val) ==
    LET w == [mp EXCEPT !.data = [mp.data EXCEPT ![ptr] = key, ![ptr + 1] = val]]
    IN  IF w.size >= w.threshold
        THEN LET r == rehash(w)
             IN  IF r.hang THEN r ELSE Ret(r.m, <<NO_VALUE>>)
        ELSE Ret([w EXCEPT !.size = w.size + 1], <<NO_VALUE>>)

\* mutant: the overwrite that returns the old value and stores nothing
PutOverwriteStoresNothing(mp, ptr, val) ==
    Ret(mp, <<mp.data[ptr + 1]>>)

\* mutant: the overwrite that goes on to the threshold test of an insert
PutOverwriteThenGrows(mp, ptr, val) ==
    LET w == [mp EXCEPT !.data = [mp.data EXCEPT ![ptr + 1] = val]]
    IN  IF w.size >= w.threshold
        THEN LET r == rehash(w)
             IN  IF r.hang THEN r ELSE Ret(r.m, <<mp.data[ptr + 1]>>)
        ELSE Ret(w, <<mp.data[ptr + 1]>>)

\* the body both `k == key` branches of Put share: overwrite
PutOverwrite(mp, ptr, val) ==
    Ret([mp EXCEPT !.data = [mp.data EXCEPT ![ptr + 1] = val]], <<mp.data[ptr + 1]>>)

\* the for loop of Put; n counts the slots looked at
PutLoop(mp, key, val, ptr, n) ==
    LET p == NextPtr(mp, ptr)
        k == mp.data[p]
    IN  IF k = FREE_KEY THEN PutAtFree(mp, p, key, val)
        ELSE IF k = key THEN PutOverwrite(mp, p, val)
        ELSE IF n + 1 >= Capacity(mp) THEN Hang(mp)
        ELSE PutLoop(mp, key, val, p, n + 1)

\* Put; out is the int64 the signed Put returns (the unsigned Put returns nothing)
Put(mp, key, val) ==
    IF key = FREE_KEY
    THEN Ret([mp EXCEPT !.size = IF mp.hasFreeKey THEN mp.size ELSE mp.size + 1,
                        !.hasFreeKey = TRUE,
                        !.freeVal = val],
             <<mp.freeVal>>)
    ELSE LET ptr == HomePtr(mp, key)
             k == mp.data[ptr]
         IN  IF k = FREE_KEY THEN PutAtFree(mp, ptr, key, val)
             ELSE IF k = key THEN PutOverwrite(mp, ptr, val)
             ELSE PutLoop(mp, key, val, ptr, 0)

\* the loop of rehash over the copy of the old array
RehashLoop(mp, data, i) ==
    IF i >= len(data) THEN Ret(mp, <<>>)
    ELSE IF data[i] # FREE_KEY
    THEN LET r == Put(mp, data[i], data[i + 1])
         IN  IF r.hang THEN r ELSE RehashLoop(r.m, data, i + 2)
    ELSE RehashLoop(mp, data, i + 2)

\* mutant: rehash that takes threshold from the array's new length, not from
\* the new capacity (newCapacity for newCapacity/2)
rehashThresholdOfLength(mp) ==
    LET newCapacity == len(mp.data) * 2
        fresh == [mp EXCEPT
                    !.threshold = FloorMul(newCapacity, mp.fillFactor),
                    !.mask = (newCapacity \div 2) - 1,
                    !.mask2 = newCapacity - 1,
                    !.data = Zeros(newCapacity),
                    !.size = IF mp.hasFreeKey THEN 1 ELSE 0]
    IN  RehashLoop(fresh, mp.data, 0)

\* mutant: rehash that starts from a Map without the free key
rehashLosesFreeKey(mp) ==
    LET newCapacity == len(mp.data) * 2
        fresh == [mp EXCEPT
                    !.threshold = FloorMul(newCapacity \div 2, mp.fillFactor),
                    !.mask = (newCapacity \div 2) - 1,
                    !.mask2 = newCapacity - 1,
                    !.data = Zeros(newCapacity),
                    !.hasFreeKey = FALSE,
                    !.size = 0]
    IN  RehashLoop(fresh, mp.data, 0)

\* mutant: rehash that resets size to 0 also when the free key is present
rehashForgetsFreeKey(mp) ==
    LET newCapacity == len(mp.data) * 2
        fresh == [mp EXCEPT
                    !.threshold = FloorMul(newCapacity \div 2, mp.fillFactor),
                    !.mask = (newCapacity \div 2) - 1,
                    !.mask2 = newCapacity - 1,
                    !.data = Zeros(newCapacity),
                    !.size = 0]
    IN  RehashLoop(fresh, mp.data, 0)

rehash(mp) ==
    LET newCapacity == len(mp.data) * 2
        fresh == [mp EXCEPT
                    !.threshold = FloorMul(newCapacity \div 2, mp.fillFactor),
                    !.mask = (newCapacity \div 2) - 1,
                    !.mask2 = newCapacity - 1,
                    !.data = Zeros(newCapacity),
                    !.size = IF mp.hasFreeKey THEN 1 ELSE 0]
    IN  RehashLoop(fresh, mp.data, 0)

----------------------------------------------------------------------------
(* Del *)

\* the steps both `k == key` branches of Del share: shiftKeys, then size -= 1
DelAt(mp, ptr) ==
    LET r == shiftKeys(mp, ptr)
    IN  IF r.hang THEN r
        ELSE Ret([r.m EXCEPT !.size = r.m.size - 1], <<mp.data[ptr + 1]>>)

\* the for loop of Del; n counts the slots looked at
RECURSIVE DelLoop(_, _, _, _)
DelLoop(mp, key, ptr, n) ==
    LET p == NextPtr(mp, ptr)
        k == mp.data[p]
    IN  IF k = key THEN DelAt(mp, p)
        ELSE IF k = FREE_KEY THEN Ret(mp, <<NO_VALUE>>)
        ELSE IF n + 1 >= Capacity(mp) THEN Hang(mp)
        ELSE DelLoop(mp, key, p, n + 1)

\* Del for a key that is not FREE_KEY (the same in both files, up to the result)
DelProbe(mp, key) ==
    LET ptr == HomePtr(mp, key)
        k == mp.data[ptr]
    IN  IF k = key THEN DelAt(mp, ptr)
        ELSE IF k = FREE_KEY THEN Ret(mp, <<NO_VALUE>>)
        ELSE DelLoop(mp, key, ptr, 0)

\* src/intintmap.go: func (m *Map) Del(key int64) int64
DelSigned(mp, key) ==
    IF key = FREE_KEY
    THEN IF ~mp.hasFreeKey
         THEN Ret(mp, <<NO_VALUE>>)
         ELSE Ret([mp EXCEPT !.hasFreeKey = FALSE, !.size = mp.size - 1], <<mp.freeVal>>)
    ELSE DelProbe(mp, key)

\* src/unnamed/part_000: func (m *Map) Del(key uint64); no test of hasFreeKey
DelUnsigned(mp, key) ==
    IF key = FREE_KEY
    THEN Ret([mp EXCEPT !.hasFreeKey = FALSE, !.size = mp.size - 1], <<>>)
    ELSE LET r == DelProbe(mp, key)
         IN  IF r.hang THEN r ELSE Ret(r.m, <<>>)

Del(v, mp, key) == IF v = "signed" THEN DelSigned(mp, key) ELSE DelUnsigned(mp, key)

Size(mp) == mp.size

----------------------------------------------------------------------------
(* Keys and Items.  Both start a goroutine that walks the array and sends  *)
(* on a channel with a buffer of 10, then closes it.  The goroutine is     *)
(* modelled from one channel operation to the next: `at` and `i` say where *)
(* it stands, NextOp says which channel operation comes next.  The model   *)
(* draws no Put or Del while an iteration runs, so `data := m.data`, read  *)
(* when the goroutine starts, is m.data throughout.                        *)

\* what is sent for array index i: k (Keys) or [2]{k, data[i+1]} (Items)
SlotItem(kind, mp, i) ==
    IF kind = "Keys" THEN <<mp.data[i]>> ELSE <<mp.data[i], mp.data[i + 1]>>

\* what is sent for the free key: FREE_KEY (Keys) or [2]{FREE_KEY, m.freeVal} (Items)
FreeItem(kind, mp) ==
    IF kind = "Keys" THEN <<FREE_KEY>> ELSE <<FREE_KEY, mp.freeVal>>

SendOp(item, at, i) == [op |-> "send", item |-> item, at |-> at, i |-> i]
CloseOp == [op |-> "close", item |-> <<>>, at |-> "end", i |-> 0]

\* src/intintmap.go, the goroutine of Keys and of Items: in the loop, a free
\* slot sends the free key when hasFreeKey, and then falls through to `c <- k`
RECURSIVE NextOpSigned(_, _, _, _)
NextOpSigned(kind, mp, at, i) ==
    IF i >= len(mp.data) THEN CloseOp
    ELSE IF at = "k" THEN SendOp(SlotItem(kind, mp, i), "loop", i + 2)
    ELSE IF mp.data[i] = FREE_KEY
    THEN IF mp.hasFreeKey
         THEN SendOp(FreeItem(kind, mp), "k", i)
         ELSE NextOpSigned(kind, mp, "loop", i + 2)      \* continue
    ELSE SendOp(SlotItem(kind, mp, i), "loop", i + 2)

\* src/unnamed/part_000, the goroutine of Keys and of Items: the free key is
\* sent before the loop, and a free slot is skipped
RECURSIVE NextOpUnsigned(_, _, _, _)
NextOpUnsigned(kind, mp, at, i) ==
    IF at = "start" /\ mp.hasFreeKey THEN SendOp(FreeItem(kind, mp), "loop", 0)
    ELSE IF i >= len(mp.data) THEN CloseOp
    ELSE IF mp.data[i] = FREE_KEY
    THEN NextOpUnsigned(kind, mp, "loop", i + 2)         \* continue
    ELSE SendOp(SlotItem(kind, mp, i), "loop", i + 2)

NextOp(v, kind, mp, at, i) ==
    IF v = "signed" THEN NextOpSigned(kind, mp, at, i) ELSE NextOpUnsigned(kind, mp, at, i)

----------------------------------------------------------------------------
(* The state machine: a caller that builds one map and calls it (Spec),    *)
(* and a caller that also iterates over it (SpecIter).                     *)

NoMap == [data |-> Zeros(0), fillFactor |-> <<0, 1>>, threshold |-> 0, size |-> 0,
          mask |-> 0, mask2 |-> 0, hasFreeKey |-> FALSE, freeVal |-> 0]

NoCall == [op |-> "none", key |-> 0, grew |-> FALSE, moved |-> FALSE]

\* no iteration: kind is "none".  Otherwise kind is "Keys" or "Items"; at, i: where
\* the goroutine stands ("end": it has closed the channel); buf: the channel's
\* buffer; closed: close(c) was called; got: what the consumer received, in order;
\* cons: "recv" (the consumer ranges over the channel), "done" (its loop ended at
\* the closed, empty channel) or "gone" (it stopped receiving before that)
NoIter == [kind |-> "none", at |-> "start", i |-> 0, buf |-> <<>>, closed |-> FALSE,
           got |-> <<>>, cons |-> "recv"]

Init ==
    /\ variant \in {"signed", "unsigned"}
    /\ pc = "init"
    /\ m = NoMap
    /\ ref = <<>>
    /\ call = NoCall
    /\ it = NoIter

\* ref with key k removed
Without(f, k) == [x \in (DOMAIN f) \ {k} |-> f[x]]
\* ref with key k set to v
With(f, k, v) == [x \in (DOMAIN f) \cup {k} |-> IF x = k THEN v ELSE f[x]]

\* New(size, fillFactor): panics, or returns the map
CallNew(size, fillFactor) ==
    /\ pc = "init"
    /\ IF NewPanics(size, fillFactor)
       THEN pc' = "panic" /\ m' = m
       ELSE pc' = "ready" /\ m' = New(size, fillFactor)
    /\ call' = [NoCall EXCEPT !.op = "New"]
    /\ UNCHANGED <<variant, ref, it>>

\* an entry of the array stands in another slot after the call
Moved(before, after) ==
    /\ len(before.data) = len(after.data)
    /\ \E i \in DOMAIN after.data :
          i % 2 = 0 /\ after.data[i] # FREE_KEY /\ after.data[i] # before.data[i]

\* a call of Put or Del that returned r, or never returns
Returns(op, key, r, newRef) ==
    IF r.hang
    THEN /\ pc' = "hung"
         /\ call' = [op |-> op, key |-> key, grew |-> FALSE, moved |-> FALSE]
         /\ UNCHANGED <<variant, m, ref, it>>
    ELSE /\ pc' = "ready"
         /\ m' = r.m
         /\ call' = [op |-> op, key |-> key,
                     grew |-> len(r.m.data) # len(m.data),
                     moved |-> op = "Del" /\ Moved(m, r.m)]
         /\ ref' = newRef
         /\ UNCHANGED <<variant, it>>

CallPut(key, val) ==
    /\ pc = "ready"
    /\ it.kind = "none"
    /\ Returns("Put", key, Put(m, key, val), With(ref, key, val))

\* size falls below the number of entries only by a Del that removes nothing;
\* MaxDeficit bounds how far
LowersSizeOnly(key) ==
    variant = "unsigned" /\ key = FREE_KEY /\ ~m.hasFreeKey

CallDel(key) ==
    /\ pc = "ready"
    /\ it.kind = "none"
    /\ LowersSizeOnly(key) => Cardinality(DOMAIN ref) - m.size < MaxDeficit
    /\ Returns("Del", key, Del(variant, m, key), Without(ref, key))

\* Get changes nothing; it returns Get(variant, m, key).out, or never returns
CallGet(key) ==
    /\ pc = "ready"
    /\ it.kind = "none"
    /\ pc' = IF Get(variant, m, key).hang THEN "hung" ELSE "ready"
    /\ UNCHANGED <<variant, m, ref, call, it>>

\* Size changes nothing; it returns Size(m)
CallSize ==
    /\ pc = "ready"
    /\ it.kind = "none"
    /\ UNCHANGED vars

\* Keys() / Items(): make the channel, start the goroutine, return the channel
CallIter(kind) ==
    /\ pc = "ready"
    /\ it.kind = "none"
    /\ it' = [NoIter EXCEPT !.kind = kind]
    /\ UNCHANGED <<variant, pc, m, ref, call>>

\* the goroutine's next `c <- ...`; it blocks while the buffer is full
ProducerSend ==
    /\ it.kind # "none"
    /\ it.at # "end"
    /\ LET o == NextOp(variant, it.kind, m, it.at, it.i)
       IN  /\ o.op = "send"
           /\ Len(it.buf) < ChanCap
           /\ it' = [it EXCEPT !.buf = Append(it.buf, o.item), !.at = o.at, !.i = o.i]
    /\ UNCHANGED <<variant, pc, m, ref, call>>

\* mutant: the goroutine that returns without close(c)
ProducerReturnsUnclosed ==
    /\ it.kind # "none"
    /\ it.at # "end"
    /\ NextOp(variant, it.kind, m, it.at, it.i).op = "close"
    /\ it' = [it EXCEPT !.at = "end"]
    /\ UNCHANGED <<variant, pc, m, ref, call>>

\* the goroutine's close(c)
ProducerClose ==
    /\ it.kind # "none"
    /\ it.at # "end"
    /\ NextOp(variant, it.kind, m, it.at, it.i).op = "close"
    /\ it' = [it EXCEPT !.closed = TRUE, !.at = "end"]
    /\ UNCHANGED <<variant, pc, m, ref, call>>

\* the consumer receives the buffer's first item
ConsumerReceive ==
    /\ it.kind # "none"
    /\ it.cons = "recv"
    /\ it.buf # <<>>
    /\ it' = [it EXCEPT !.buf = Tail(it.buf), !.got = Append(it.got, Head(it.buf))]
    /\ UNCHANGED <<variant, pc, m, ref, call>>

\* the consumer's range loop ends: the channel is closed and empty
ConsumerDone ==
    /\ it.kind # "none"
    /\ it.cons = "recv"
    /\ it.buf = <<>>
    /\ it.closed
    /\ it' = [it EXCEPT !.cons = "done"]
    /\ UNCHANGED <<variant, pc, m, ref, call>>

\* the consumer stops receiving before the channel is closed and drained
ConsumerAbandon ==
    /\ it.kind # "none"
    /\ it.cons = "recv"
    /\ ~(it.buf = <<>> /\ it.closed)
    /\ it' = [it EXCEPT !.cons = "gone"]
    /\ UNCHANGED <<variant, pc, m, ref, call>>

Next ==
    \/ \E size \in SizeArgs, fillFactor \in FillArgs : CallNew(size, fillFactor)
    \/ \E key \in KeySet, val \in Values : CallPut(key, val)
    \/ \E key \in KeySet : CallDel(key)
    \/ \E key \in KeySet : CallGet(key)
    \/ CallSize

Spec == Init /\ [][Next]_vars

NextIter ==
    \/ \E size \in SizeArgs, fillFactor \in FillArgs : CallNew(size, fillFactor)
    \/ \E key \in IterKeySet, val \in Values : CallPut(key, val)
    \/ \E key \in IterKeySet : CallDel(key)
    \/ \E kind \in {"Keys", "Items"} : CallIter(kind)
    \/ ProducerSend
    \/ ProducerClose
    \/ ConsumerReceive
    \/ ConsumerDone
    \/ ConsumerAbandon

SpecIter == Init /\ [][NextIter]_vars

\* The caller that iterates and keeps receiving: no ConsumerAbandon.  The Go
\* scheduler runs a goroutine that can run, so the producer's send and close
\* are weakly fair; that the consumer keeps receiving makes its receive and the
\* end of its range loop weakly fair.
NextDrain ==
    \/ \E size \in SizeArgs, fillFactor \in FillArgs : CallNew(size, fillFactor)
    \/ \E key \in IterKeySet, val \in Values : CallPut(key, val)
    \/ \E key \in IterKeySet : CallDel(key)
    \/ \E kind \in {"Keys", "Items"} : CallIter(kind)
    \/ ProducerSend
    \/ ProducerClose
    \/ ConsumerReceive
    \/ ConsumerDone

SpecDrain ==
    /\ Init
    /\ [][NextDrain]_vars
    /\ WF_vars(ProducerSend)
    /\ WF_vars(ProducerClose)
    /\ WF_vars(ConsumerReceive)
    /\ WF_vars(ConsumerDone)

\* The caller of the scenario: New(4, 0.5), then Puts of new keys among 1..5,
\* each with ten times the key as its value, in any order, then Dels of present
\* keys in any order, with Get and Size in between.  The run New(4, 0.5);
\* Put(1, 10); Put(2, 20); Put(3, 30); Put(4, 40); Put(5, 50); Del(2) is one of
\* its behaviours.
ScenarioNew == CallNew(4, <<1, 2>>)

ScenarioPut(key) ==
    /\ call.op # "Del"
    /\ key \notin DOMAIN ref
    /\ CallPut(key, ScenarioVal(key))

ScenarioDel(key) ==
    /\ key \in DOMAIN ref
    /\ CallDel(key)

NextScenario ==
    \/ ScenarioNew
    \/ \E key \in ScenarioKeys : ScenarioPut(key)
    \/ \E key \in ScenarioKeys : ScenarioDel(key)
    \/ \E key \in ScenarioKeys : CallGet(key)
    \/ CallSize

SpecScenario == Init /\ [][NextScenario]_vars

----------------------------------------------------------------------------
(* What the claims are stated with *)

\* Get(k) returns v: v in the signed file, (v, true) in the unsigned one
Found(mp, k, v) ==
    LET r == Get(variant, mp, k)
    IN  ~r.hang /\ r.out = (IF variant = "signed" THEN <<v>> ELSE <<v, TRUE>>)

\* Get(k) reports not found: NO_VALUE in the signed file, (0, false) in the unsigned one
NotFound(mp, k) ==
    LET r == Get(variant, mp, k)
    IN  ~r.hang /\ r.out = (IF variant = "signed" THEN <<NO_VALUE>> ELSE <<0, FALSE>>)

\* the key slots of the array
KeySlots(mp) == {i \in DOMAIN mp.data : i % 2 = 0}

\* the key slots on the cyclic stride-2 path from `from` up to, not including, `to`
RECURSIVE PathTo(_, _, _)
PathTo(mp, from, to) ==
    IF from = to THEN {} ELSE {from} \cup PathTo(mp, NextPtr(mp, from), to)

NumPresent == Cardinality(DOMAIN ref)

\* the first empty key slot on the cyclic stride-2 path from `ptr` on
RECURSIVE FirstFreeFrom(_, _)
FirstFreeFrom(mp, ptr) ==
    IF mp.data[ptr] = FREE_KEY THEN ptr ELSE FirstFreeFrom(mp, NextPtr(mp, ptr))

\* what an iteration has to deliver: the present keys (Keys), the present
\* key/value pairs (Items)
ExpectedItems ==
    IF it.kind = "Keys" THEN {<<k>> : k \in DOMAIN ref}
    ELSE {<<k, ref[k]>> : k \in DOMAIN ref}

\* the occupied slots from index i on, in index order, as Keys (Items) sends them
RECURSIVE SlotsInOrder(_, _, _)
SlotsInOrder(kind, mp, i) ==
    IF i >= len(mp.data) THEN <<>>
    ELSE (IF mp.data[i] # FREE_KEY THEN <<SlotItem(kind, mp, i)>> ELSE <<>>)
             \o SlotsInOrder(kind, mp, i + 2)

\* the order of delivery: the entry of key 0 first when present, then the
\* occupied slots in index order
ExpectedOrder ==
    (IF m.hasFreeKey THEN <<FreeItem(it.kind, m)>> ELSE <<>>) \o SlotsInOrder(it.kind, m, 0)

\* s is a prefix of t
IsPrefix(s, t) == Len(s) <= Len(t) /\ s = SubSeq(t, 1, Len(s))

\* n is a power of two >= 2 (up to 2^16)
IsPowerOf2(n) == \E e \in 1..16 : n = Pow2(e)

\* the fields derived from the capacity are what New and rehash make them
Shaped(mp) ==
    /\ len(mp.data) = 2 * Capacity(mp)
    /\ IsPowerOf2(Capacity(mp))
    /\ mp.mask = Capacity(mp) - 1
    /\ mp.mask2 = 2 * Capacity(mp) - 1
    /\ mp.threshold = (Capacity(mp) * mp.fillFactor[1]) \div mp.fillFactor[2]

\* this step is a call of New / Put(k, _) / Del(k) that returned (the steps of
\* Get and Size leave `call` as it is, and change nothing else either)
StepCall(op) ==
    /\ pc' = "ready" /\ it.kind = "none" /\ it'.kind = "none"
    /\ call'.op = op
    /\ <<m, ref, call>> # <<m', ref', call'>>
StepNew == pc = "init" /\ StepCall("New")
StepPut(k) == pc = "ready" /\ StepCall("Put") /\ call'.key = k
StepDel(k) == pc = "ready" /\ StepCall("Del") /\ call'.key = k

----------------------------------------------------------------------------
(* C1: in both variants, after any sequence of Put and Del calls that      *)
(* returned, Get(k) returns v for every key k whose most recent mutating   *)
(* call was Put(k, v): the map agrees with the reference map on all        *)
(* present keys.                                                           *)
C1_GetAgreesWithReference ==
    pc = "ready" => \A k \in DOMAIN ref : Found(m, k, ref[k])

\* a Put has just grown the table, key 0 and two more keys are present, and
\* Get returns the value of each
C1_Witness ==
    /\ pc = "ready" /\ call.op = "Put" /\ call.grew
    /\ FREE_KEY \in DOMAIN ref /\ NumPresent >= 3
    /\ \A k \in DOMAIN ref : Found(m, k, ref[k])

(* C2: in both variants, Del(k) lowers Size() by exactly 1 when k was      *)
(* present and leaves it unchanged when k was absent, key 0 included.      *)
C2_DelChangesSizeByPresence ==
    [][\A k \in KeySet :
          (CallDel(k) /\ pc' = "ready")
              => Size(m') = Size(m) - (IF k \in DOMAIN ref THEN 1 ELSE 0)]_vars

(* C3: in both variants, right after Del(k) the call Get(k) reports not    *)
(* found, and it goes on reporting not found across every further Put or   *)
(* Del of another key.                                                     *)
C3_DeletedStaysNotFound ==
    [][\A k \in KeySet :
          /\ (CallDel(k) /\ pc' = "ready") => NotFound(m', k)
          /\ ( /\ pc = "ready" /\ pc' = "ready"
               /\ k \notin DOMAIN ref
               /\ NotFound(m, k)
               /\ \E j \in KeySet \ {k} :
                     CallDel(j) \/ \E v \in Values : CallPut(j, v) )
                => NotFound(m', k)]_vars

(* C4: with no mutation during the iteration, what the consumer received   *)
(* from Keys() (Items()) when its loop ends at the closed channel is every  *)
(* present key (key/value pair) exactly once and nothing else.             *)
C4_DrainedIsEveryEntryOnce ==
    (it.kind # "none" /\ it.cons = "done")
        => /\ Len(it.got) = Cardinality(ExpectedItems)
           /\ {it.got[n] : n \in 1..Len(it.got)} = ExpectedItems

(* C5: after any sequence of Put and Del calls that returned, for every    *)
(* occupied slot, holding key k, every slot on the cyclic stride-2 path    *)
(* from home(k) up to it is occupied, and Get(k) returns the slot's value. *)
C5_ProbeChainUnbroken ==
    pc = "ready" =>
        \A i \in KeySlots(m) :
            m.data[i] # FREE_KEY =>
                /\ \A j \in PathTo(m, HomePtr(m, m.data[i]), i) : m.data[j] # FREE_KEY
                /\ Found(m, m.data[i], m.data[i + 1])

\* a Del has just moved an entry backward, and an entry still stands away from
\* its home slot
C5_Witness ==
    /\ pc = "ready" /\ call.op = "Del" /\ call.moved
    /\ \E i \in KeySlots(m) :
          /\ m.data[i] # FREE_KEY
          /\ HomePtr(m, m.data[i]) # i
          /\ Found(m, m.data[i], m.data[i + 1])

(* C6: a Put(k, v) of a new non-zero key that triggers rehash keeps every  *)
(* key present before it with its value, makes k present with v, and       *)
(* raises Size() by exactly one.                                           *)
C6_GrowthKeepsEntries ==
    [][\A k \in KeySet \ {FREE_KEY}, v \in Values :
          ( /\ CallPut(k, v) /\ pc' = "ready"
            /\ k \notin DOMAIN ref
            /\ len(m'.data) # len(m.data) )
              => /\ \A j \in DOMAIN ref : Found(m', j, ref[j])
                 /\ Found(m', k, v)
                 /\ Size(m') = Size(m) + 1]_vars

(* C7: in the signed variant, Put(k, v) returns the value k had when k was *)
(* present, and NO_VALUE when k was not present at the call, also when k   *)
(* was present earlier and removed by Del(k) since; key 0 included.        *)
C7_PutReturnsPrevious ==
    [][\A k \in KeySet, v \in Values :
          (variant = "signed" /\ CallPut(k, v) /\ pc' = "ready")
              => Put(m, k, v).out
                     = <<IF k \in DOMAIN ref THEN ref[k] ELSE NO_VALUE>>]_vars

(* C8: in every state reachable by the public calls the array keeps at     *)
(* least one empty slot, and no call of Get, Put or Del loops for ever.    *)
C8_AlwaysAnEmptySlot ==
    pc \in {"ready", "hung"} => (~NoFreeSlot(m.data) /\ pc # "hung")

(* C9: from a fresh map, Size() is the number of present keys after Puts   *)
(* of distinct keys (key 0 and growth included) and stays so after Dels of *)
(* distinct keys among them: Size() is 0 after New, and a Put or a Del of  *)
(* a present key takes a state where Size() is the number of present keys  *)
(* to another one.                                                         *)
C9_SizeCountsEntries ==
    [][ /\ StepNew => Size(m') = 0
        /\ \A k \in KeySet :
              ( /\ Size(m) = NumPresent
                /\ StepPut(k) \/ (k \in DOMAIN ref /\ StepDel(k)) )
                  => Size(m') = Cardinality(DOMAIN ref') ]_vars

\* key 0 and two more keys were put, the table grew on the way, and a Del of a
\* present key has just moved an entry: Size() is the number of keys left
C9_Witness ==
    /\ pc = "ready" /\ call.op = "Del" /\ call.moved
    /\ FREE_KEY \in DOMAIN ref /\ NumPresent >= 2
    /\ Size(m) = NumPresent

(* C10: New(size, fillFactor) panics and returns no map when               *)
(* fillFactor <= 0, fillFactor >= 1 or size <= 0; otherwise it returns an  *)
(* empty map: Size() = 0, no free key, every slot empty, and Get(k)        *)
(* reports not found for every k.                                          *)
C10_NewPanicsOrReturnsEmpty ==
    [][\A size \in SizeArgs, fillFactor \in FillArgs :
          CallNew(size, fillFactor) =>
              IF fillFactor[1] <= 0 \/ fillFactor[1] >= fillFactor[2] \/ size <= 0
              THEN pc' = "panic" /\ m' = NoMap
              ELSE /\ pc' = "ready"
                   /\ Size(m') = 0
                   /\ ~m'.hasFreeKey
                   /\ len(m'.data) >= 4
                   /\ \A i \in DOMAIN m'.data : m'.data[i] = 0
                   /\ \A k \in KeySet : NotFound(m', k)]_vars

\* New has just returned a map of capacity 8 in which no key is found
C10_Witness ==
    /\ pc = "ready" /\ call.op = "New"
    /\ Capacity(m) = 8
    /\ \A k \in KeySet : NotFound(m, k)

(* C11: New(4, 0.5) has capacity 8; after Puts of up to four of the keys    *)
(* 1..5 (k with value 10k) the capacity is still 8 and Size() is the       *)
(* number of keys put; the Put of the fifth key grows the table to         *)
(* capacity 16 and all five keys are found with their values; after a      *)
(* Del(k), Get(k) reports not found and the keys left are found with their *)
(* values.                                                                 *)
C11_ScenarioHolds ==
    pc = "ready" =>
        /\ (call.op \in {"New", "Put"} /\ NumPresent <= 4)
               => (Capacity(m) = 8 /\ Size(m) = NumPresent)
        /\ (call.op = "Put" /\ NumPresent = 5)
               => (Capacity(m) = 16 /\ Size(m) = 5)
        /\ \A k \in DOMAIN ref : Found(m, k, 10 * k)
        /\ call.op = "Del" => NotFound(m, call.key)

\* the scenario has run to its end: the fifth Put grew the table to capacity
\* 16, Del(2) has just returned, Get(2) reports not found and 1, 3, 4, 5 are
\* found with 10, 30, 40, 50
C11_Witness ==
    /\ pc = "ready" /\ call.op = "Del" /\ call.key = 2
    /\ DOMAIN ref = {1, 3, 4, 5}
    /\ Capacity(m) = 16
    /\ NotFound(m, 2)
    /\ Found(m, 1, 10) /\ Found(m, 3, 30) /\ Found(m, 4, 40) /\ Found(m, 5, 50)

(* C12: in every state between calls of both variants size <= threshold,   *)
(* where size counts the entry of key 0 when present; also after Put on    *)
(* key 0.                                                                  *)
C12_SizeWithinThreshold ==
    pc = "ready" => m.size <= m.threshold

(* C13 as stated: a Put of a new non-zero key triggers rehash exactly when  *)
(* old size + 1 reaches or exceeds threshold; otherwise it adds 1 to size  *)
(* and leaves the capacity unchanged.                                      *)
C13_GrowsWhenNewSizeReachesThreshold ==
    [][\A k \in KeySet \ {FREE_KEY} :
          (StepPut(k) /\ k \notin DOMAIN ref)
              => IF m.size + 1 >= m.threshold
                 THEN Capacity(m') > Capacity(m)
                 ELSE Capacity(m') = Capacity(m) /\ m'.size = m.size + 1]_vars

(* C13 amended: a Put of a new non-zero key triggers rehash exactly when    *)
(* the size before the call has reached threshold (size >= threshold);     *)
(* otherwise it writes the key and the value into the first empty slot of  *)
(* the key's probe chain, adds 1 to size and changes nothing else.         *)
C13_GrowsWhenOldSizeReachedThreshold ==
    [][\A k \in KeySet \ {FREE_KEY} :
          (StepPut(k) /\ k \notin DOMAIN ref)
              => IF m.size >= m.threshold
                 THEN Capacity(m') > Capacity(m)
                 ELSE LET p == FirstFreeFrom(m, HomePtr(m, k))
                      IN  m' = [m EXCEPT !.size = m.size + 1,
                                         !.data = [m.data EXCEPT ![p] = k,
                                                                 ![p + 1] = ref'[k]]]]_vars

\* a Put of a new non-zero key has just brought size up to threshold, into a
\* slot away from the key's home slot, and the table did not grow
C13_Witness ==
    /\ pc = "ready" /\ call.op = "Put" /\ call.key # FREE_KEY /\ ~call.grew
    /\ m.size = m.threshold
    /\ \E i \in KeySlots(m) : m.data[i] = call.key /\ HomePtr(m, call.key) # i

(* C14: with no mutation during the iteration, Keys() and Items() deliver   *)
(* the entry of key 0 first (only when key 0 is present, with its value in *)
(* Items()), then the occupied slots in increasing index order: what was   *)
(* sent so far is a prefix of that order, and all of it when the channel   *)
(* is closed.                                                              *)
C14_FreeKeyFirstThenIndexOrder ==
    it.kind # "none" =>
        /\ IsPrefix(it.got \o it.buf, ExpectedOrder)
        /\ it.closed => it.got \o it.buf = ExpectedOrder

(* C15: Put(k, v) on a non-zero key k that is present changes only the      *)
(* value paired with k: size, capacity, threshold, the free key's flag and  *)
(* value and the slot and value of every other key stay as they are, and   *)
(* no rehash happens, also when size >= threshold.                         *)
C15_OverwriteChangesOnlyTheValue ==
    [][\A k \in KeySet \ {FREE_KEY} :
          (StepPut(k) /\ k \in DOMAIN ref)
              => \E i \in KeySlots(m) :
                    /\ m.data[i] = k
                    /\ m' = [m EXCEPT !.data = [m.data EXCEPT ![i + 1] = ref'[k]]]]_vars

\* a Put of a non-zero key has returned with size above threshold and without
\* growth: the key was present (a Put of a new key that does not grow leaves
\* size <= threshold), and it now has the value 1
C15_Witness ==
    /\ pc = "ready" /\ call.op = "Put" /\ call.key # FREE_KEY /\ ~call.grew
    /\ m.size > m.threshold
    /\ Found(m, call.key, 1)

(* C16: Get, Put and Del called with key 0 neither read nor write the       *)
(* array and change none of capacity, threshold, mask and mask2: Get(0)    *)
(* returns what it returns over an array of zeros, Put(0, _) and Del(0)    *)
(* leave every field but hasFreeKey, freeVal and size as it was; and a     *)
(* rehash keeps the free key's flag and value and puts only the non-zero   *)
(* keys into the array.                                                    *)
C16_FreeKeyStaysOutOfTheArray ==
    [][ /\ pc = "ready"
            => LET r == Get(variant, m, FREE_KEY)
                   z == Get(variant, [m EXCEPT !.data = Zeros(len(m.data))], FREE_KEY)
               IN  ~r.hang /\ r.m = m /\ ~z.hang /\ r.out = z.out
        /\ (StepPut(FREE_KEY) \/ StepDel(FREE_KEY))
            => m' = [m EXCEPT !.hasFreeKey = m'.hasFreeKey,
                              !.freeVal = m'.freeVal,
                              !.size = m'.size]
        /\ \A k \in KeySet \ {FREE_KEY} :
              (StepPut(k) /\ call'.grew)
                  => /\ m'.hasFreeKey = m.hasFreeKey
                     /\ m'.freeVal = m.freeVal
                     /\ Cardinality({i \in KeySlots(m') : m'.data[i] # FREE_KEY})
                            = Cardinality(DOMAIN ref' \ {FREE_KEY}) ]_vars

\* a Put of a non-zero key has just grown the table while key 0 was present
\* with value 1, and Get(0) still returns 1
C16_Witness ==
    /\ pc = "ready" /\ call.op = "Put" /\ call.key # FREE_KEY /\ call.grew
    /\ m.hasFreeKey /\ m.freeVal = 1
    /\ Found(m, FREE_KEY, 1)

(* C17: in every state between calls of both variants capacity =           *)
(* len(data)/2 is a power of two >= 2, mask = capacity - 1, mask2 =        *)
(* 2 capacity - 1 and threshold = floor(capacity * fillFactor); no step    *)
(* lowers the capacity, and only a Put (through rehash) changes it.        *)
C17_CapacityShapeAndGrowth ==
    [][pc' = "ready" =>
          /\ Shaped(m')
          /\ pc = "ready" =>
                /\ Capacity(m') >= Capacity(m)
                /\ Capacity(m') # Capacity(m) => (call'.op = "Put" /\ call'.grew)
                /\ m'.fillFactor = m.fillFactor]_vars

\* a Put has just grown a table of capacity 2 and fill factor 3/4 to capacity
\* 4: mask 3, mask2 7, threshold floor(4 * 3/4) = 3
C17_Witness ==
    /\ pc = "ready" /\ call.op = "Put" /\ call.grew
    /\ m.fillFactor = <<3, 4>>
    /\ Capacity(m) = 4 /\ m.mask = 3 /\ m.mask2 = 7 /\ m.threshold = 3

(* C18: with no mutation during the iteration and a consumer that keeps     *)
(* receiving, every Keys()/Items() iteration completes: the buffer never   *)
(* holds more than 10 items, the producer can run whenever the buffer is   *)
(* not full, and the iteration leads to the consumer's loop ending at the  *)
(* closed channel with every present entry received.                       *)
C18_IterationCompletes ==
    /\ [](Len(it.buf) <= ChanCap)
    /\ []((it.kind # "none" /\ it.at # "end" /\ Len(it.buf) < ChanCap)
             => ENABLED (ProducerSend \/ ProducerClose))
    /\ (it.kind # "none") ~> (it.cons = "done")
    /\ [](it.cons = "done"
             => /\ it.closed /\ it.at = "end" /\ it.buf = <<>>
                /\ ExpectedItems \subseteq {it.got[n] : n \in 1..Len(it.got)})

\* the consumer's loop has ended at the closed channel after more than 10
\* items: more than the buffer holds, so the producer went on sending as the
\* consumer received
C18_Witness ==
    /\ it.kind # "none" /\ it.cons = "done" /\ it.closed
    /\ Len(it.got) > ChanCap

(* C19: the goroutine started by Keys()/Items() always terminates: once    *)
(* the consumer has stopped receiving before the channel is closed, the    *)
(* goroutine is not left blocked on a send; it can still run to its end.   *)
C19_ProducerNotLeftBlocked ==
    (it.kind # "none" /\ it.cons = "gone" /\ it.at # "end")
        => ENABLED (ProducerSend \/ ProducerClose)

(* C20: the re-insertion loop of rehash never triggers a further rehash:    *)
(* one call of Put leaves the capacity as it was or exactly doubled, also  *)
(* in states where key 0 is present.                                       *)
C20_PutAtMostDoublesCapacity ==
    [][\A k \in KeySet :
          StepPut(k) => Capacity(m') \in {Capacity(m), 2 * Capacity(m)}]_vars

====
